---- MODULE Spec2Model ----
\* Table materialisation / upsert protocol of the Dremio client
\* (src/src/dremio/_mixins/_table.py): the statements each operation sends to
\* the engine, in which order, and what it raises.
EXTENDS Integers, Sequences, FiniteSets, TLC

\* ------------------------------------------------------------------ bounds
MaxRows == 3          \* rows of a tabular source
MaxBatch == 3         \* largest batch_size tried
MaxInvocations == 2   \* invocations started in one behaviour of Spec
ConcRows == 1         \* rows of a tabular source in SpecConc
ConcInvocations == 3  \* invocations started in one behaviour of SpecConc
ScriptRows == 1        \* rows of a tabular source given to the script
MaxStrLen == 3        \* characters of a string value
MaxPathLen == 4       \* characters of a path given as a string
MaxInnerLen == 3      \* characters between the brackets of a bracketed path
MaxSegments == 2      \* segments of a path given as a list
MaxResultRows == 8    \* rows of a job result
MaxAttempts == 5      \* connection attempts of one Flight query
MaxDatasets == 3      \* datasets written as dbt models in one call
MaxTableRows == 3     \* rows of an arrow table
MaxTableCols == 2     \* columns of an arrow table
MaxFields == 2        \* fields of a dataclass given to to_dict

\* ------------------------------------------------------------- vocabulary
Clients == {"c1", "c2"}
\* T: the table at the caller's path;  S: the table at <path>_temp_update
Tables == {"T", "S"}
ConflictStatus == 409
MissingMarker == "No such file or directory"

\* ----------------------------------------------------------------- values
\* A scalar of a row. isa: the classes it is an instance of; nan: val != val;
\* truth: bool(val); chars: its characters (a str) or those of str(val);
\* date, time, frac: the parts of a date or date-time. kind names what the
\* isna: what pd.isna(val) gives, "yes", "no" or an "array" of answers.
\* kind names what the value is, for the claims; the code only sees the other
\* fields.
Value(kind, isa, chars) ==
    [kind |-> kind, isa |-> isa, nan |-> FALSE, isna |-> "no", truth |-> TRUE,
     chars |-> chars, date |-> "", time |-> "", frac |-> ""]
NoneVal == [Value("null", {"NoneType"}, <<"None">>) EXCEPT !.isna = "yes"]
NanVal == [Value("nan", {"float"}, <<"nan">>) EXCEPT !.nan = TRUE, !.isna = "yes"]
NumpyNanVal ==
    [Value("nan", {"float64", "float"}, <<"nan">>) EXCEPT !.nan = TRUE, !.isna = "yes"]
DecimalNanVal ==
    [Value("other", {"Decimal"}, <<"NaN">>) EXCEPT !.nan = TRUE, !.isna = "yes"]
ListVal == [Value("other", {"list"}, <<"[1, 2]">>) EXCEPT !.isna = "array"]
FloatVal == Value("number", {"float"}, <<"1", ".", "5">>)
StrVal(s) == [Value("string", {"str"}, s) EXCEPT !.truth = (s # << >>)]
BoolVal(b) ==
    [Value("bool", {"bool", "int"}, IF b THEN <<"True">> ELSE <<"False">>)
        EXCEPT !.truth = b]
Digit(d) == <<"0", "1", "2", "3", "4", "5", "6", "7", "8", "9">>[d + 1]
RECURSIVE Decimal(_)
Decimal(n) == IF n < 10 THEN <<Digit(n)>> ELSE Append(Decimal(n \div 10), Digit(n % 10))
IntVal(n) == [Value("number", {"int"}, Decimal(n)) EXCEPT !.truth = (n # 0)]
DateTimeVal(isa) ==
    [Value("datetime", isa, <<"2023-01-02", " ", "03:04:05", ".", "678000">>)
        EXCEPT !.date = "2023-01-02", !.time = "03:04:05", !.frac = "678000"]
DateVal == [Value("date", {"date"}, <<"2023-01-02">>) EXCEPT !.date = "2023-01-02"]
BytesVal == Value("other", {"bytes"}, <<"b", "'", "a", "'">>)

StringsUpTo(n) == UNION {[1..k -> {"a", "b", "'"}] : k \in 0..n}
Values ==
    {NoneVal, NanVal, NumpyNanVal, DecimalNanVal, FloatVal, DateVal, BytesVal, ListVal,
     DateTimeVal({"datetime", "date"}), DateTimeVal({"Timestamp", "datetime", "date"}),
     BoolVal(TRUE), BoolVal(FALSE), IntVal(0), IntVal(1), IntVal(42)}
        \cup {StrVal(s) : s \in StringsUpTo(MaxStrLen)}

\* val.replace("'", "''")
RECURSIVE DoubleQuotes(_)
DoubleQuotes(s) ==
    IF s = << >> THEN << >>
    ELSE (IF Head(s) = "'" THEN <<"'", "'">> ELSE <<Head(s)>>) \o DoubleQuotes(Tail(s))

\* a quoting that leaves embedded quotes as they are
QuoteStringPlain(s) == <<"'">> \o s \o <<"'">>
\* f"'{val_escaped}'"
QuoteString(s) == <<"'">> \o DoubleQuotes(s) \o <<"'">>

\* escape_sql_value(val): the characters of the SQL literal
escape_sql_value(val) ==
    IF "NoneType" \in val.isa THEN <<"NULL">>
    ELSE IF "float" \in val.isa /\ val.nan THEN <<"NULL">>
    ELSE IF "str" \in val.isa THEN QuoteString(val.chars)
    ELSE IF val.isa \cap {"datetime", "date"} # {}
         THEN IF "datetime" \in val.isa
              THEN <<"TIMESTAMP '", val.date, " ", val.time, "'">>
              ELSE <<"DATE '", val.date, "'">>
    ELSE IF "bool" \in val.isa THEN (IF val.truth THEN <<"TRUE">> ELSE <<"FALSE">>)
    ELSE val.chars

\* what a call of a pure function gives: the text it returns, or what it raises
Gives(text) == [raised |-> "none", text |-> text]
Raises(exc) == [raised |-> exc, text |-> << >>]

\* escape_sql_value(val) of the script create_dataset.py
script_escape_sql_value(val) ==
    IF val.isna = "array" THEN Raises("ValueError")
    ELSE IF val.isna = "yes" THEN Gives(<<"NULL">>)
    ELSE IF "str" \in val.isa THEN Gives(QuoteString(val.chars))
    ELSE IF "Timestamp" \in val.isa
         THEN Gives(<<"TIMESTAMP '", val.date, " ", val.time, "'">>)
    ELSE IF "bool" \in val.isa THEN Gives(IF val.truth THEN <<"TRUE">> ELSE <<"FALSE">>)
    ELSE Gives(val.chars)

\* ------------------------------------------------------------ column types
Dtype(name, family, bits) == [name |-> name, family |-> family, bits |-> bits]
Dtypes ==
    {Dtype("Int8", "int", 8), Dtype("Int16", "int", 16), Dtype("Int32", "int", 32),
     Dtype("Int64", "int", 64), Dtype("UInt8", "uint", 8), Dtype("UInt16", "uint", 16),
     Dtype("UInt32", "uint", 32), Dtype("UInt64", "uint", 64),
     Dtype("Float32", "float", 32), Dtype("Float64", "float", 64),
     Dtype("Boolean", "bool", 1), Dtype("Datetime", "datetime", 64),
     Dtype("Date", "date", 32), Dtype("String", "text", 0), Dtype("Time", "other", 64),
     Dtype("Duration", "other", 64), Dtype("List", "other", 0), Dtype("Null", "other", 0),
     Dtype("Decimal", "other", 128), Dtype("Categorical", "other", 32)}

\* a mapping that gives a date column its own keyword
map_dtype_date_as_date(dtype) ==
    IF dtype.name \in {"Int8", "Int16", "Int32", "Int64"} THEN "BIGINT"
    ELSE IF dtype.name \in {"UInt8", "UInt16", "UInt32", "UInt64"} THEN "BIGINT"
    ELSE IF dtype.name \in {"Float32", "Float64"} THEN "DOUBLE"
    ELSE IF dtype.name = "Boolean" THEN "BOOLEAN"
    ELSE IF dtype.name = "Datetime" THEN "TIMESTAMP"
    ELSE IF dtype.name = "Date" THEN "DATE"
    ELSE "VARCHAR"

\* map_dtype_to_sql(dtype)
map_dtype_to_sql(dtype) ==
    IF dtype.name \in {"Int8", "Int16", "Int32", "Int64"} THEN "BIGINT"
    ELSE IF dtype.name \in {"UInt8", "UInt16", "UInt32", "UInt64"} THEN "BIGINT"
    ELSE IF dtype.name \in {"Float32", "Float64"} THEN "DOUBLE"
    ELSE IF dtype.name = "Boolean" THEN "BOOLEAN"
    ELSE IF dtype.name \in {"Datetime", "Date"} THEN "TIMESTAMP"
    ELSE "VARCHAR"

\* map_dtype_to_sql(dtype) of the script create_dataset.py, for pandas dtypes
script_map_dtype_to_sql(dtype) ==
    IF dtype.family \in {"int", "uint"} THEN "BIGINT"
    ELSE IF dtype.family = "float" THEN "DOUBLE"
    ELSE IF dtype.family = "bool" THEN "BOOLEAN"
    ELSE IF dtype.family = "datetime" THEN "TIMESTAMP"
    ELSE "VARCHAR"

\* a tabular source of k rows and two columns, an integer and a string; row i
\* holds the integer i, and its string has a quote in every second row
Columns ==
    <<[name |-> "id", dtype |-> Dtype("Int64", "int", 64)],
      [name |-> "name", dtype |-> Dtype("String", "text", 0)]>>
Row(i) == <<IntVal(i), StrVal(IF i % 2 = 0 THEN <<"a", "'">> ELSE <<"a">>)>>
DataFramesUpTo(n) == {[i \in 1..k |-> Row(i)] : k \in 0..n}
BatchSizes == {-1, 0} \cup (1..MaxBatch)

\* what a caller may pass as the source argument
SourcesUpTo(n) ==
    [kind : {"df"}, rows : DataFramesUpTo(n), sql : {""}]
        \cup [kind : {"sql"}, rows : {<< >>}, sql : {"q1", "q2"}]
        \cup [kind : {"none", "other"}, rows : {<< >>}, sql : {""}]
\* what a caller of the script's create_table may pass as df and as sql
ScriptSourcesUpTo(n) ==
    [df : {TRUE}, rows : DataFramesUpTo(n), sql : {"", "q1"}]
        \cup [df : {FALSE}, rows : {<< >>}, sql : {"", "q1"}]

\* --------------------------------------------------------------- responses
\* A response of the engine: Ok, or a DremioError with a status and a message.
Ok == [type |-> "ok", status_code |-> 200, errorMessage |-> << >>]
DremioError(status, msg) ==
    [type |-> "DremioError", status_code |-> status, errorMessage |-> msg]
ErrConflict == DremioError(ConflictStatus, <<"already exists">>)
ErrNotFound == DremioError(404, <<"table not found">>)
ErrNoSuchFile == DremioError(404, <<MissingMarker>>)
ErrOther == DremioError(500, <<"engine failure">>)
NoExc == [type |-> "none", status_code |-> 0, errorMessage |-> << >>]
RuntimeError(msg) == [type |-> "RuntimeError", status_code |-> 0, errorMessage |-> msg]
TypeError(msg) == [type |-> "TypeError", status_code |-> 0, errorMessage |-> msg]
ValueError(msg) == [type |-> "ValueError", status_code |-> 0, errorMessage |-> msg]

\* str(e) of an engine error carries its message
Contains(msg, part) == \E i \in 1..Len(msg) : msg[i] = part

\* The engine enforces uniqueness of names and rejects statements on absent
\* tables; any statement may also be rejected for another reason.
CreateResponses(cat, t) ==
    IF t \in cat THEN {ErrConflict, ErrOther} ELSE {Ok, ErrOther}
InsertResponses(cat, t) ==
    IF t \in cat THEN {Ok, ErrOther} ELSE {ErrNotFound, ErrOther}
MergeResponses(cat, t, s) ==
    IF t \in cat /\ (s = "query" \/ s \in cat) THEN {Ok, ErrOther}
    ELSE {ErrNotFound, ErrOther}
DropResponses(cat, t) ==
    IF t \in cat THEN {Ok, ErrOther} ELSE {ErrNotFound, ErrOther}
\* get_catalog_by_path: an entry, an empty entry, or an error
Found == [type |-> "entry", status_code |-> 200, errorMessage |-> << >>]
Empty == [type |-> "empty", status_code |-> 200, errorMessage |-> << >>]
LookupResponses(cat, t) ==
    IF t \in cat THEN {Found, ErrOther} ELSE {ErrNoSuchFile, Empty, ErrOther}

\* ------------------------------------------------------------ pure helpers
\* sep.join(parts), the parts and the result sequences of characters
RECURSIVE Join(_, _)
Join(parts, sep) ==
    IF parts = << >> THEN << >>
    ELSE IF Len(parts) = 1 THEN parts[1]
    ELSE parts[1] \o <<sep>> \o Join(Tail(parts), sep)

\* a row rendered with its values in reverse order
RenderRowReversed(r) ==
    <<"(">> \o Join([j \in 1..Len(r) |-> escape_sql_value(r[Len(r) + 1 - j])], ", ") \o <<")">>
\* one rendered VALUES tuple of a row: f"({values})"
RenderRow(r) ==
    <<"(">> \o Join([j \in 1..Len(r) |-> escape_sql_value(r[j])], ", ") \o <<")">>
\* the same in the script, with the script's escape_sql_value
ScriptRenderRow(r) ==
    <<"(">> \o Join([j \in 1..Len(r) |-> script_escape_sql_value(r[j]).text], ", ")
            \o <<")">>

\* the column definitions of CREATE TABLE: f'"{col}" {sql_type}' per column
ColumnDefinitions(columns, script) ==
    [j \in 1..Len(columns) |->
        <<"\"", columns[j].name, "\"", " ",
          IF script THEN script_map_dtype_to_sql(columns[j].dtype)
          ELSE map_dtype_to_sql(columns[j].dtype)>>]
\* create_sql of create_table_from_dataframe
CreateSql(path, columns, script) ==
    <<"CREATE TABLE", path, "(">> \o Join(ColumnDefinitions(columns, script), ",\n  ")
        \o <<")">>
\* insert_sql of create_table_from_dataframe
InsertSql(path, value_rows) ==
    <<"INSERT INTO", path, "VALUES">> \o Join(value_rows, ",\n")
\* create_sql of create_table_from_sql
CtasSql(path, sql) == <<"CREATE TABLE", path, "AS", sql>>
\* a MERGE with the query and the ON clause in each other's place
MergeSqlSwapped(path, using, on) ==
    <<"MERGE INTO", path, "AS t", "USING">> \o <<"(", on, ")">>
        \o <<"AS s", "ON (", using[(Len(using) + 1) \div 2], ")",
      "WHEN MATCHED THEN UPDATE SET *", "WHEN NOT MATCHED THEN INSERT *">>
\* merge_sql; using: <<"(", sql, ")">> for a query, <<table>> for a staging table
MergeSql(path, using, on) ==
    <<"MERGE INTO", path, "AS t", "USING">> \o using \o <<"AS s", "ON (", on, ")",
      "WHEN MATCHED THEN UPDATE SET *", "WHEN NOT MATCHED THEN INSERT *">>
\* drop_sql
DropSql(path) == <<"DROP TABLE", path>>

\* The insert loop from row i+1 on with an empty value_rows: rows are appended
\* one by one and the loop stops to send as soon as len(value_rows) >= b; at
\* the end of the rows whatever is pending is sent. Result: the number of rows
\* consumed and the value_rows to send (empty: nothing left to send).
RECURSIVE FillBatch(_, _, _, _, _)
FillBatch(rows, i, acc, b, script) ==
    IF i >= Len(rows) THEN [i |-> i, batch |-> acc]
    ELSE LET tuple == IF script THEN ScriptRenderRow(rows[i + 1]) ELSE RenderRow(rows[i + 1])
             acc2 == Append(acc, tuple)
         IN  IF Len(acc2) >= b THEN [i |-> i + 1, batch |-> acc2]
             ELSE FillBatch(rows, i + 1, acc2, b, script)
\* the loop with the test len(value_rows) > b
NextBatchOffByOne(rows, i, b, script) == FillBatch(rows, i, << >>, b + 1, script)
\* a loop that sends nothing unless the batch size is positive
NextBatchPositiveOnly(rows, i, b, script) ==
    IF b <= 0 THEN [i |-> Len(rows), batch |-> << >>] ELSE FillBatch(rows, i, << >>, b, script)
\* a loop that sends the rows it sent before again with every batch
NextBatchNoReset(rows, i, b, script) ==
    LET nb == FillBatch(rows, i, << >>, b, script)
    IN  IF nb.batch = << >> THEN nb
        ELSE [nb EXCEPT !.batch = FillBatch(rows, 0, << >>, nb.i, script).batch]
NextBatch(rows, i, b, script) == FillBatch(rows, i, << >>, b, script)

\* message of the re-raised conflict error
ConflictMessage(path, hint, msg) ==
    <<"Table", path, "already exists. Use", hint, "to modify it.">> \o msg

\* a dispatch that takes a query string for a tabular value
CreateTableRouteAllTabular(kind) ==
    CASE kind = "none" -> "ValueError"
      [] kind \in {"df", "sql"} -> "create_table_from_dataframe"
      [] OTHER -> "TypeError"
\* create_table: where it sends a source of each kind
CreateTableRoute(kind) ==
    CASE kind = "none" -> "ValueError"
      [] kind = "df" -> "create_table_from_dataframe"
      [] kind = "sql" -> "create_table_from_sql"
      [] OTHER -> "TypeError"

\* the script's create_table without the test of both sources given
ScriptUsageErrorNoBoth(df, sql) ==
    IF ~ df /\ sql = ""
    THEN ValueError(<<"You must provide either a DataFrame or a SQL query to create the table.">>)
    ELSE NoExc
\* the tests at the head of the script's create_table; sql = "": sql is None
ScriptUsageError(df, sql) ==
    IF ~ df /\ sql = ""
    THEN ValueError(<<"You must provide either a DataFrame or a SQL query to create the table.">>)
    ELSE IF df /\ sql # ""
         THEN ValueError(<<"Provide only one of DataFrame or SQL query, not both.">>)
         ELSE NoExc

\* a DROP whose rejection is not raised
DropHandlerSwallow(r) == NoExc
\* handler of the DROP's response (update_table_from_dataframe): re-raised
DropHandler(r) == IF r = Ok THEN NoExc ELSE r

\* a handler that swallows the conflict like any other rejection
CreateHandlerSwallow(r, path, hint) == NoExc

\* a handler that re-raises the conflict without annotating it
CreateHandlerPlain(r, path, hint) ==
    IF r.type = "DremioError" /\ r.status_code = ConflictStatus THEN r ELSE NoExc

\* handler of the CREATE's response (create_table_from_dataframe and
\* create_table_from_sql): the exception it raises, NoExc if none
CreateHandler(r, path, hint) ==
    IF r.type = "DremioError"
    THEN IF r.status_code = ConflictStatus
         THEN [r EXCEPT !.errorMessage = ConflictMessage(path, hint, r.errorMessage)]
         ELSE NoExc
    ELSE NoExc

\* a handler without the test of an empty entry
LookupHandlerNoEmptyTest(r, path) ==
    IF r.type = "DremioError"
    THEN IF Contains(r.errorMessage, MissingMarker)
         THEN RuntimeError(<<"Table", path, "does not exist.">>)
         ELSE r
    ELSE NoExc

\* handler of the catalog lookup's response (update_table_from_sql)
LookupHandler(r, path) ==
    IF r.type = "DremioError"
    THEN IF Contains(r.errorMessage, MissingMarker)
         THEN RuntimeError(<<"Table", path, "does not exist.">>)
         ELSE r
    ELSE IF r = Empty
         THEN RuntimeError(<<"Table", path, "does not exist. Use create_table() instead.">>)
         ELSE NoExc

\* MERGE ... WHEN MATCHED THEN UPDATE WHEN NOT MATCHED THEN INSERT, on the
\* engine: the target keeps its rows and gains the source rows it lacks
Upsert(target, source) ==
    target \o SelectSeq(source, LAMBDA x : ~ \E j \in 1..Len(target) : target[j] = x)
\* the rows of the caller's query: one row, unlike any row of a tabular source
QueryRows == <<RenderRow(Row(0))>>

\* -------------------------------------------------------------------- paths
\* A path argument: a list of strings, a string, or something else. Strings
\* are sequences of characters.
ListPath(segments) == [kind |-> "list", segs |-> segments, chars |-> << >>]
StrPath(chars) == [kind |-> "str", segs |-> << >>, chars |-> chars]

\* s.replace(ch, "")
Without(s, ch) == SelectSeq(s, LAMBDA x : x # ch)
\* the least index from i on whose character is in set, Len(s) + 1 if none
FirstIn(s, i, set) ==
    IF \E j \in i..Len(s) : s[j] \in set
    THEN CHOOSE j \in i..Len(s) : s[j] \in set /\ \A k \in i..(j - 1) : s[k] \notin set
    ELSE Len(s) + 1
\* the least index from i on whose character is not in set, Len(s) + 1 if none
FirstNotIn(s, i, set) ==
    IF \E j \in i..Len(s) : s[j] \notin set
    THEN CHOOSE j \in i..Len(s) : s[j] \notin set /\ \A k \in i..(j - 1) : s[k] \in set
    ELSE Len(s) + 1
\* the characters that end an unquoted token: [. \[\],]
TokenEnd == {".", " ", "[", "]", ","}

\* bracketed_pattern.match(path): ^\s*\[(.*)\]\s*$
Bracketed(s) ==
    LET open == FirstNotIn(s, 1, {" "})
        close == IF \E j \in 1..Len(s) : s[j] # " "
                 THEN CHOOSE j \in 1..Len(s) : s[j] # " " /\ \A k \in (j + 1)..Len(s) : s[k] = " "
                 ELSE 0
    IN  [match |-> open < close /\ s[open] = "[" /\ s[close] = "]",
         inner |-> IF open < close THEN SubSeq(s, open + 1, close - 1) ELSE << >>]

\* segment_pattern.finditer(inner) from position i, each segment with its
\* quotes stripped: a quoted segment is one followed, spaces apart, by a comma
\* or the end; an unquoted one starts at a character that is no comma, quote or
\* space and runs to the next comma
RECURSIVE Segments(_, _)
Segments(inner, i) ==
    IF i > Len(inner) THEN << >>
    ELSE LET j == FirstNotIn(inner, i, {" "})
         IN  IF j > Len(inner) THEN Segments(inner, i + 1)
             ELSE IF inner[j] \in {"\"", "'"}
             THEN LET k == IF inner[j] = "'" THEN FirstIn(inner, j + 1, {"'"})
                           ELSE FirstIn(inner, j + 1, {"\""})
                      m == FirstNotIn(inner, k + 1, {" "})
                  IN  IF k <= Len(inner) /\ (m > Len(inner) \/ inner[m] = ",")
                      THEN <<SubSeq(inner, j + 1, k - 1)>> \o Segments(inner, m + 1)
                      ELSE Segments(inner, i + 1)
             ELSE IF inner[j] = "," THEN Segments(inner, i + 1)
             ELSE LET e == FirstIn(inner, j, {","})
                  IN  <<SubSeq(inner, j, e - 1)>> \o Segments(inner, e + 1)

\* token_pattern.finditer(path) from position i: a segment between single
\* quotes, or a run of characters other than . space [ ] and comma
RECURSIVE Tokens(_, _)
Tokens(s, i) ==
    IF i > Len(s) THEN << >>
    ELSE IF s[i] = "'" /\ FirstIn(s, i + 1, {"'"}) <= Len(s)
    THEN LET k == FirstIn(s, i + 1, {"'"})
         IN  <<SubSeq(s, i + 1, k - 1)>> \o Tokens(s, k + 1)
    ELSE IF s[i] \notin TokenEnd
    THEN LET e == FirstIn(s, i, TokenEnd)
         IN  <<SubSeq(s, i, e - 1)>> \o Tokens(s, e)
    ELSE Tokens(s, i + 1)

\* sep.join(parts) for a separator of several characters
RECURSIVE JoinChars(_, _)
JoinChars(parts, sep) ==
    IF parts = << >> THEN << >>
    ELSE IF Len(parts) = 1 THEN parts[1]
    ELSE parts[1] \o sep \o JoinChars(Tail(parts), sep)

\* path_to_list(path)
path_to_list(path) ==
    IF path.kind = "list"
    THEN Gives([j \in 1..Len(SelectSeq(path.segs, LAMBDA p : p # << >>)) |->
                    Without(SelectSeq(path.segs, LAMBDA p : p # << >>)[j], "\"")])
    ELSE IF path.kind # "str" THEN Raises("ValueError")
    ELSE IF Bracketed(path.chars).match THEN Gives(Segments(Bracketed(path.chars).inner, 1))
    ELSE Gives(SelectSeq(Tokens(path.chars, 1), LAMBDA t : t # << >>))

\* a path_to_dotted that joins the segments without quoting them
path_to_dotted_bare(path) ==
    LET l == path_to_list(path)
    IN  IF l.raised # "none" THEN l ELSE Gives(JoinChars(l.text, <<".">>))

\* path_to_dotted(path)
path_to_dotted(path) ==
    LET l == path_to_list(path)
    IN  IF l.raised # "none" THEN l
        ELSE Gives(<<"\"">> \o JoinChars(l.text, <<"\"", ".", "\"">>) \o <<"\"">>)

\* dotted_full_path(path, name); name = << >>: no name given
dotted_full_path(path, name) ==
    LET l == path_to_list(path)
    IN  IF l.raised # "none" THEN l
        ELSE IF name # << >> THEN Gives(JoinChars(l.text, <<".">>) \o <<".">> \o name)
        ELSE Gives(JoinChars(l.text, <<".">>))

\* s.split('.') from position i on: the pieces between the dots, empty ones too
RECURSIVE SplitDots(_, _)
SplitDots(s, i) ==
    LET e == FirstIn(s, i, {"."})
    IN  IF e > Len(s) THEN <<SubSeq(s, i, Len(s))>>
        ELSE <<SubSeq(s, i, e - 1)>> \o SplitDots(s, e + 1)

\* What update_table_from_dataframe names its staging table, for the target
\* path: temp_table_path, which it puts into the MERGE and the DROP, and the
\* full_table_path that create_table_from_dataframe makes of it for the CREATE
\* and the INSERTs
StagingNames(path) ==
    LET pieces == SplitDots(path, 1)
        table_name == pieces[Len(pieces)]
        folder == path_to_dotted(ListPath(SubSeq(pieces, 1, Len(pieces) - 1))).text
        temp_table_path == folder \o <<".">> \o table_name \o <<"_temp_update">>
    IN  [temp_table_path |-> temp_table_path,
         full_table_path |-> dotted_full_path(StrPath(temp_table_path), << >>).text]

\* ------------------------------------------------------------- job results
Min(a, b) == IF a < b THEN a ELSE b
\* a JobResult made by from_arrow of n rows: row i is i, rowCount = len(rows)
JobResult(n) == [kind |-> "JobResult", rowCount |-> n, rows |-> [i \in 1..n |-> i]]
\* rows[:k]
SliceTo(rows, k) ==
    IF k >= 0 THEN SubSeq(rows, 1, Min(k, Len(rows)))
    ELSE SubSeq(rows, 1, IF Len(rows) + k > 0 THEN Len(rows) + k ELSE 0)
\* a line of the table body: a row, or the row of "..."
Line(i) == [marker |-> FALSE, row |-> i]
MarkerLine == [marker |-> TRUE, row |-> 0]
\* JobResult.preview_table(number_of_rows): the lines added below the divider
preview_table(self, number_of_rows) ==
    LET shown == SliceTo(self.rows, number_of_rows)
    IN  [j \in 1..Len(shown) |-> Line(shown[j])]
            \o (IF number_of_rows < self.rowCount THEN <<MarkerLine>> ELSE << >>)

\* An arrow table: the column names and types of its schema, and per column
\* its num_rows values.
ArrowTables ==
    UNION {{[kind |-> "table", names |-> SubSeq(<<"c1", "c2", "c3", "c4">>, 1, k),
             types |-> [c \in 1..k |-> "int64"], num_rows |-> r, columns |-> cols] :
                cols \in [1..k -> [1..r -> {0, 1}]]} :
           k \in 1..MaxTableCols, r \in 0..MaxTableRows}
\* arrow_table.to_pylist(): one dict per row, its keys in column order
to_pylist(arrow_table) ==
    [i \in 1..arrow_table.num_rows |->
        [c \in 1..Len(arrow_table.names) |->
            [name |-> arrow_table.names[c], value |-> arrow_table.columns[c][i]]]]
\* Schema([{"name": n, "type": t} for n, t in zip(schema_names, schema_types)])
SchemaOf(arrow_table) ==
    [c \in 1..Len(arrow_table.names) |->
        [name |-> arrow_table.names[c], type |-> arrow_table.types[c]]]
\* a construction that counts the columns instead of the rows
from_arrow_table_counting_columns(arrow_table) ==
    [kind |-> "JobResult", rowCount |-> Len(arrow_table.names),
     schema |-> SchemaOf(arrow_table), rows |-> to_pylist(arrow_table)]
\* JobResult.from_arrow_table(arrow_table)
from_arrow_table(arrow_table) ==
    LET rows == to_pylist(arrow_table)
    IN  [kind |-> "JobResult", rowCount |-> Len(rows), schema |-> SchemaOf(arrow_table),
         rows |-> rows]
\* JobResult.__len__
JobResult_len(self) == self.rowCount
\* JobResult.__iter__: the list the iterator runs over
JobResult_iter(self) == self.rows

\* ------------------------------------------------------------------ flight
\* The fields of a FlightConfig that _flight_query_stream reads and sets.
FlightConfigs == [tls : BOOLEAN, disable_certificate_verification : BOOLEAN,
                  allow_autoconfig : BOOLEAN]
\* a retry that sets the field on the configuration object itself
SetInPlace(heap, ref, field_tls) ==
    [heap |-> [heap EXCEPT ![ref] =
                  IF field_tls THEN [@ EXCEPT !.tls = TRUE]
                  ELSE [@ EXCEPT !.disable_certificate_verification = TRUE]],
     ref |-> ref]
\* flight_config_copy = copy.copy(flight_config), then one field of the copy
\* set: the heap with the new object, and the reference to it
CopyAndSet(heap, ref, field_tls) ==
    [heap |-> Append(heap, IF field_tls THEN [heap[ref] EXCEPT !.tls = TRUE]
                           ELSE [heap[ref] EXCEPT !.disable_certificate_verification = TRUE]),
     ref |-> Len(heap) + 1]

\* The except clause of _flight_query_stream for the response r, in a frame
\* whose flight_config is the object ref; object 1 is self.flight_config.
\* Result: "raise", or the retry to make.
OnUnavailable(heap, ref, r) ==
    IF ~ heap[ref].allow_autoconfig THEN "raise"
    ELSE IF "SETTINGS" \in r.markers /\ heap[ref].tls = FALSE THEN "retry tls"
    ELSE IF "empty address list" \in r.markers
            /\ heap[1].disable_certificate_verification = FALSE
         THEN "retry verification"
    ELSE "raise"

\* --------------------------------------------------------------------- dbt
\* name.replace("/", "_").replace("\\", "_")
SafeName(name) == [j \in 1..Len(name) |-> IF name[j] \in {"/", "\\"} THEN "_" ELSE name[j]]
\* the while loop of write_dbt_models: the first of base_name, base_name_1,
\* base_name_2, ... from final_name on whose file name is not yet used
RECURSIVE UniqueName(_, _, _, _)
UniqueName(base_name, final_name, count, used_filenames) ==
    IF (final_name \o <<".sql">>) \in used_filenames
    THEN UniqueName(base_name, base_name \o <<"_">> \o Decimal(count), count + 1,
                    used_filenames)
    ELSE final_name

\* ----------------------------------------------------------------- to_dict
\* str(value)
StrOf(value) == [type |-> "str", repr |-> value.repr]
\* dataclass instances: fields with distinct names, in declaration order, each
\* holding a UUID or a value of another type
Dataclasses ==
    {[kind |-> "dataclass", fields |-> f] :
        f \in {g \in UNION {[1..k -> [name : {<<"a">>, <<"_", "a">>, <<"_", "_", "a">>, <<"_">>},
                                      value : {[type |-> "UUID", repr |-> <<"u", "1">>],
                                               [type |-> "int", repr |-> <<"7">>]}]] :
                                k \in 0..MaxFields} :
                    \A i, j \in 1..Len(g) : i < j => g[i].name # g[j].name}}
\* result[key] = value on a dict kept in insertion order
Put(result, key, value) ==
    IF \E j \in 1..Len(result) : result[j].key = key
    THEN [j \in 1..Len(result) |->
            IF result[j].key = key THEN [key |-> key, value |-> value] ELSE result[j]]
    ELSE Append(result, [key |-> key, value |-> value])
\* the loop of to_dict from item i on
RECURSIVE ToDictLoop(_, _, _)
ToDictLoop(items, i, result) ==
    IF i > Len(items) THEN Gives(result)
    ELSE LET key == items[i].name
             value == items[i].value
             r1 == IF value.type = "UUID" THEN Put(result, key, StrOf(value)) ELSE result
         IN  IF key[1] = "_"
             THEN IF Len(key) < 2 THEN Raises("IndexError")
                  ELSE IF key[2] # "_" THEN ToDictLoop(items, i + 1, r1)
                  ELSE ToDictLoop(items, i + 1, Put(r1, key, value))
             ELSE ToDictLoop(items, i + 1, Put(r1, key, value))
\* asdict(d).items() of an instance whose fields hold no dataclasses: its fields
to_dict(d) == ToDictLoop(d.fields, 1, << >>)

\* ------------------------------------------------------------------- state
VARIABLES
    catalog,   \* the tables that exist on the engine
    data,      \* the rows of each table
    pc,        \* where each client's invocation stands
    op,        \* the operation each client is running
    args,      \* its arguments
    loc,       \* its local variables
    sent,      \* the statements it has sent, each with the engine's response
    looked,    \* the catalog lookups it has made, each with the response
    outcome,   \* how the invocation ended
    started,   \* invocations started so far
    victim,    \* clients whose staging table another client dropped under them
    collided,  \* the collisions between invocations seen so far
    fn,        \* the pure function applied last
    input,     \* its argument
    output,    \* what it gave
    work       \* the local state of a call that takes several steps

pure == <<fn, input, output, work>>
vars == <<catalog, data, pc, op, args, loc, sent, looked, outcome, started,
          victim, collided, fn, input, output, work>>

NoArgs == [kind |-> "none", rows |-> << >>, columns |-> << >>, sql |-> "", on |-> "",
           batch_size |-> 1, keep_temp_table |-> FALSE, targetExisted |-> FALSE]
NoLoc == [i |-> 0, value_rows |-> << >>, full_table_path |-> "T"]
Pending == [kind |-> "none", exc |-> NoExc]
Returned == [kind |-> "returned", exc |-> NoExc]
Raised(e) == [kind |-> "raised", exc |-> e]

Statement(kind, table, src, tuples, text, r) ==
    [kind |-> kind, table |-> table, src |-> src, tuples |-> tuples, text |-> text,
     resp |-> r]
NoInput == [kind |-> "none"]
NoWork == [kind |-> "none"]

Idle(c) == pc[c] \in {"idle", "done"}

InitInvocations ==
    /\ pc = [c \in Clients |-> "idle"]
    /\ op = [c \in Clients |-> "none"]
    /\ args = [c \in Clients |-> NoArgs]
    /\ loc = [c \in Clients |-> NoLoc]
    /\ sent = [c \in Clients |-> << >>]
    /\ looked = [c \in Clients |-> << >>]
    /\ outcome = [c \in Clients |-> Pending]
    /\ started = 0
    /\ victim = [c \in Clients |-> FALSE]
    /\ collided = {}

InitClients ==
    /\ InitInvocations
    /\ fn = "none"
    /\ input = NoInput
    /\ output = Gives(<< >>)
    /\ work = NoWork

\* any catalog: the target may or may not exist, a staging table may be left over
Init ==
    /\ catalog \in SUBSET Tables
    /\ data = [t \in Tables |-> << >>]
    /\ InitClients

\* a new invocation of client c: operation o, first position p, outcome out
Begin(c, o, a, table, p, out) ==
    /\ Idle(c)
    /\ started' = started + 1
    /\ op' = [op EXCEPT ![c] = o]
    /\ args' = [args EXCEPT ![c] = [a EXCEPT !.targetExisted = "T" \in catalog]]
    /\ loc' = [loc EXCEPT ![c] = [NoLoc EXCEPT !.full_table_path = table]]
    /\ sent' = [sent EXCEPT ![c] = << >>]
    /\ looked' = [looked EXCEPT ![c] = << >>]
    /\ pc' = [pc EXCEPT ![c] = p]
    /\ outcome' = [outcome EXCEPT ![c] = out]
    /\ victim' = [victim EXCEPT ![c] = FALSE]
    /\ UNCHANGED <<catalog, data, collided, pure>>

\* create_table(based_on, path, name, batch_size)
CallCreateTable(c, src, b) ==
    LET a == [NoArgs EXCEPT !.kind = src.kind, !.rows = src.rows,
                            !.columns = IF src.kind = "df" THEN Columns ELSE << >>,
                            !.sql = src.sql, !.batch_size = b]
        to == CreateTableRoute(src.kind)
    IN  CASE to = "create_table_from_dataframe" -> Begin(c, to, a, "T", "create", Pending)
          [] to = "create_table_from_sql" -> Begin(c, to, a, "T", "ctas", Pending)
          [] to = "ValueError" ->
               Begin(c, "create_table", a, "T", "done",
                     Raised(ValueError(<<"You must provide either a DataFrame or a SQL query">>)))
          [] OTHER ->
               Begin(c, "create_table", a, "T", "done",
                     Raised(TypeError(<<"from must be a DataFrame or a SQL query string">>)))

\* update_table_from_sql(sql, on, path)
CallUpdateFromSql(c, src, on) ==
    LET a == [NoArgs EXCEPT !.kind = src.kind, !.sql = src.sql, !.on = on]
    IN  IF src.kind = "sql"
        THEN Begin(c, "update_table_from_sql", a, "T", "lookup", Pending)
        ELSE Begin(c, "update_table_from_sql", a, "T", "done",
                   Raised(TypeError(<<"sql must be a string.">>)))

\* create_table(dremio, target_path, table_name, df, sql, batch_size) of the script
CallScriptCreateTable(c, src, b) ==
    LET kind == IF src.df THEN (IF src.sql = "" THEN "df" ELSE "both")
                ELSE (IF src.sql = "" THEN "none" ELSE "sql")
        a == [NoArgs EXCEPT !.kind = kind, !.rows = src.rows,
                            !.columns = IF src.df THEN Columns ELSE << >>,
                            !.sql = src.sql, !.batch_size = b]
        exc == ScriptUsageError(src.df, src.sql)
    IN  IF exc # NoExc THEN Begin(c, "script.create_table", a, "T", "done", Raised(exc))
        ELSE IF src.df THEN Begin(c, "script.create_table", a, "T", "create", Pending)
        ELSE Begin(c, "script.create_table", a, "T", "ctas", Pending)

\* update_table_from_dataframe(df, on, path, batch_size, keep_temp_table)
CallUpdateFromDataframe(c, src, on, b, keep) ==
    LET a == [NoArgs EXCEPT !.kind = src.kind, !.rows = src.rows,
                            !.columns = IF src.kind = "df" THEN Columns ELSE << >>,
                            !.on = on, !.batch_size = b, !.keep_temp_table = keep]
    IN  IF src.kind = "df"
        THEN Begin(c, "update_table_from_dataframe", a, "S", "create", Pending)
        ELSE Begin(c, "update_table_from_dataframe", a, "S", "done",
                   Raised(TypeError(<<"df must be a Pandas or Polars DataFrame.">>)))

\* ------------------------------------------------------- sending statements
Log(c, st) == sent' = [sent EXCEPT ![c] = Append(@, st)]

\* the invocation of c ends: it returns, or raises e
Finish(c, e) ==
    /\ pc' = [pc EXCEPT ![c] = "done"]
    /\ outcome' = [outcome EXCEPT ![c] = IF e = NoExc THEN Returned ELSE Raised(e)]

\* where create_table_from_dataframe's caller goes on when it has returned
AfterCreateTable(c) ==
    IF op[c] = "update_table_from_dataframe" THEN "merge" ELSE "done"

\* c goes on after the CREATE or after an accepted INSERT: to the next batch
\* if the loop has one to send, else out of create_table_from_dataframe
Continue(c, nb) ==
    /\ loc' = [loc EXCEPT ![c].i = nb.i, ![c].value_rows = nb.batch]
    /\ IF nb.batch # << >>
       THEN /\ pc' = [pc EXCEPT ![c] = "insert"]
            /\ UNCHANGED outcome
       ELSE IF AfterCreateTable(c) = "done"
            THEN Finish(c, NoExc)
            ELSE /\ pc' = [pc EXCEPT ![c] = AfterCreateTable(c)]
                 /\ UNCHANGED outcome

\* c's current invocation created the staging table and is still running
HoldsStaging(d) ==
    /\ op[d] = "update_table_from_dataframe"
    /\ ~ Idle(d)
    /\ sent[d] # << >>
    /\ sent[d][1].resp = Ok

\* self.query(create_sql) in create_table_from_dataframe, with its handler
SendCreate(c) ==
    /\ pc[c] = "create"
    /\ \E r \in CreateResponses(catalog, loc[c].full_table_path) :
         LET t == loc[c].full_table_path
             exc == CreateHandler(r, t, "update_dataset()")
         IN  /\ Log(c, Statement("CREATE", t, "schema", << >>,
                                  CreateSql(t, args[c].columns, op[c] = "script.create_table"),
                                  r))
             /\ catalog' = IF r = Ok THEN catalog \cup {t} ELSE catalog
             /\ data' = IF r = Ok THEN [data EXCEPT ![t] = << >>] ELSE data
             /\ collided' = IF r = ErrConflict /\ \E d \in Clients \ {c} : HoldsStaging(d)
                            THEN collided \cup {"create_conflict"} ELSE collided
             /\ IF exc # NoExc
                THEN Finish(c, exc) /\ UNCHANGED loc
                ELSE Continue(c, NextBatch(args[c].rows, 0, args[c].batch_size,
                                           op[c] = "script.create_table"))
    /\ UNCHANGED <<op, args, looked, started, victim, pure>>

\* self.query(insert_sql), in the loop or after it
SendInsert(c) ==
    /\ pc[c] = "insert"
    /\ \E r \in InsertResponses(catalog, loc[c].full_table_path) :
         LET t == loc[c].full_table_path
         IN  /\ Log(c, Statement("INSERT", t, "values", loc[c].value_rows,
                                  InsertSql(t, loc[c].value_rows), r))
             /\ data' = IF r = Ok THEN [data EXCEPT ![t] = @ \o loc[c].value_rows] ELSE data
             /\ collided' = IF r = ErrNotFound /\ victim[c]
                            THEN collided \cup {"premature_drop"} ELSE collided
             /\ IF r # Ok
                THEN Finish(c, r) /\ UNCHANGED loc
                ELSE Continue(c, NextBatch(args[c].rows, loc[c].i, args[c].batch_size,
                                           op[c] = "script.create_table"))
    /\ UNCHANGED <<catalog, op, args, looked, started, victim, pure>>

\* self.query(create_sql) in create_table_from_sql, with its handler; in the
\* script's create_table the same statement has no handler
SendCtas(c) ==
    /\ pc[c] = "ctas"
    /\ \E r \in CreateResponses(catalog, "T") :
         /\ Log(c, Statement("CREATE", "T", "query", << >>, CtasSql("T", args[c].sql), r))
         /\ catalog' = IF r = Ok THEN catalog \cup {"T"} ELSE catalog
         /\ data' = IF r = Ok THEN [data EXCEPT !["T"] = QueryRows] ELSE data
         /\ IF op[c] = "script.create_table"
            THEN Finish(c, IF r = Ok THEN NoExc ELSE r)
            ELSE Finish(c, CreateHandler(r, "T", "update_table()"))
    /\ UNCHANGED <<op, args, loc, looked, started, victim, collided, pure>>

\* self.get_catalog_by_path(path) in update_table_from_sql, with its handler
Lookup(c) ==
    /\ pc[c] = "lookup"
    /\ \E r \in LookupResponses(catalog, "T") :
         LET exc == LookupHandler(r, "T")
         IN  /\ looked' = [looked EXCEPT ![c] = Append(@, r)]
             /\ IF exc # NoExc
                THEN Finish(c, exc)
                ELSE pc' = [pc EXCEPT ![c] = "merge"] /\ UNCHANGED outcome
    /\ UNCHANGED <<catalog, data, op, args, loc, sent, started, victim, collided, pure>>

\* the source of c's MERGE: the caller's query, or the staging table
MergeSource(c) == IF op[c] = "update_table_from_sql" THEN "query" ELSE "S"

\* a DROP sent whenever a tabular update has sent its MERGE, kept or not
AfterMergeAlwaysDrop(c, r) ==
    IF r = Ok /\ op[c] = "update_table_from_dataframe" THEN "drop" ELSE "done"

\* a DROP sent as a clean-up when the MERGE was rejected too
AfterMergeCleanup(c, r) ==
    IF op[c] = "update_table_from_dataframe" /\ ~ args[c].keep_temp_table
    THEN "drop" ELSE "done"

\* where c goes when the engine has answered its MERGE with r: a rejection is
\* raised; after an accepted MERGE the tabular update drops the staging table
\* unless keep_temp_table is set
AfterMerge(c, r) ==
    IF r # Ok THEN "done"
    ELSE IF op[c] = "update_table_from_dataframe" /\ ~ args[c].keep_temp_table
         THEN "drop" ELSE "done"

\* self.query(merge_sql) in update_table_from_sql and update_table_from_dataframe
SendMerge(c) ==
    /\ pc[c] = "merge"
    /\ \E r \in MergeResponses(catalog, "T", MergeSource(c)) :
         LET src == MergeSource(c)
             rows == IF src = "query" THEN QueryRows ELSE data["S"]
             using == IF src = "query" THEN <<"(", args[c].sql, ")">> ELSE <<src>>
         IN  /\ Log(c, Statement("MERGE", "T", src, << >>,
                                  MergeSql("T", using, args[c].on), r))
             /\ data' = IF r = Ok THEN [data EXCEPT !["T"] = Upsert(@, rows)] ELSE data
             /\ collided' = IF r = ErrNotFound /\ victim[c] /\ "S" \notin catalog
                            THEN collided \cup {"premature_drop"} ELSE collided
             /\ IF AfterMerge(c, r) = "done"
                THEN Finish(c, IF r = Ok THEN NoExc ELSE r)
                ELSE pc' = [pc EXCEPT ![c] = AfterMerge(c, r)] /\ UNCHANGED outcome
    /\ UNCHANGED <<catalog, op, args, loc, looked, started, victim, pure>>

\* self.query(drop_sql) in update_table_from_dataframe
SendDrop(c) ==
    /\ pc[c] = "drop"
    /\ \E r \in DropResponses(catalog, "S") :
         /\ Log(c, Statement("DROP", "S", "none", << >>, DropSql("S"), r))
         /\ catalog' = IF r = Ok THEN catalog \ {"S"} ELSE catalog
         /\ data' = IF r = Ok THEN [data EXCEPT !["S"] = << >>] ELSE data
         /\ victim' = [d \in Clients |->
                         victim[d] \/ (r = Ok /\ d # c
                                       /\ op[d] = "update_table_from_dataframe"
                                       /\ pc[d] \in {"insert", "merge"})]
         /\ Finish(c, DropHandler(r))
    /\ UNCHANGED <<op, args, loc, looked, started, collided, pure>>

\* ---------------------------------------------------------- specifications
\* one client, every operation, every kind of source
Call(c) ==
    /\ started < MaxInvocations
    /\ \/ \E src \in SourcesUpTo(MaxRows), b \in BatchSizes : CallCreateTable(c, src, b)
       \/ \E src \in ScriptSourcesUpTo(ScriptRows), b \in BatchSizes :
            CallScriptCreateTable(c, src, b)
       \/ \E src \in SourcesUpTo(0), on \in {"on1", "on2"} : CallUpdateFromSql(c, src, on)
       \/ \E src \in SourcesUpTo(MaxRows), b \in BatchSizes, keep \in BOOLEAN :
            CallUpdateFromDataframe(c, src, "on1", b, keep)

Step(c) ==
    \/ SendCreate(c)
    \/ SendInsert(c)
    \/ SendCtas(c)
    \/ Lookup(c)
    \/ SendMerge(c)
    \/ SendDrop(c)

Next == Call("c1") \/ Step("c1")

Spec == Init /\ [][Next]_vars

\* two clients updating the same existing target from tabular sources
InitConc ==
    /\ catalog = {"T"}
    /\ data = [t \in Tables |-> << >>]
    /\ InitClients

CallConc(c) ==
    /\ started < ConcInvocations
    /\ \E rows \in DataFramesUpTo(ConcRows) :
         CallUpdateFromDataframe(c, [kind |-> "df", rows |-> rows, sql |-> ""], "on1",
                                 1, FALSE)

StepConc(c) ==
    \/ SendCreate(c)
    \/ SendInsert(c)
    \/ SendMerge(c)
    \/ SendDrop(c)

NextConc == \E c \in Clients : CallConc(c) \/ StepConc(c)

SpecConc == InitConc /\ [][NextConc]_vars

\* the pure functions, each applied to every argument of a bounded set
ApplyPure(f, x, y) ==
    /\ fn' = f
    /\ input' = x
    /\ output' = y
    /\ UNCHANGED <<catalog, data, pc, op, args, loc, sent, looked, outcome, started,
                   victim, collided, work>>

ApplyEscape == \E val \in Values : ApplyPure("escape_sql_value", val, Gives(escape_sql_value(val)))
ApplyScriptEscape ==
    \E val \in Values : ApplyPure("script.escape_sql_value", val, script_escape_sql_value(val))
ApplyMapDtype ==
    \E dtype \in Dtypes : ApplyPure("map_dtype_to_sql", dtype, Gives(<<map_dtype_to_sql(dtype)>>))

InitPure ==
    /\ catalog = {}
    /\ data = [t \in Tables |-> << >>]
    /\ InitClients

NextPure == ApplyEscape \/ ApplyScriptEscape \/ ApplyMapDtype

SpecPure == InitPure /\ [][NextPure]_vars

\* the path functions, each applied once to a path drawn at the start
SegmentChoices ==
    {<< >>, <<"a">>, <<"b">>, <<"a", ".", "b">>, <<"a", " ", "b">>, <<"\"">>,
     <<"\"", "a", "\"">>, <<"'", "a", "'">>}
SegmentLists == UNION {[1..k -> SegmentChoices] : k \in 0..MaxSegments}
\* "a"."b"."c": each segment between double quotes, joined by dots
DottedQuoted(l) ==
    JoinChars([j \in 1..Len(l) |-> <<"\"">> \o l[j] \o <<"\"">>], <<".">>)
PathInputs ==
    {StrPath(s) : s \in UNION {[1..k -> {"a", "b", ".", "\"", "'", " ", ","}] : k \in 0..MaxPathLen}}
        \cup {StrPath(<<"[">> \o s \o <<"]">>) :
                 s \in UNION {[1..k -> {"a", ",", " ", "\"", "'"}] : k \in 0..MaxInnerLen}}
        \cup {StrPath(DottedQuoted(l)) : l \in SegmentLists \ {<< >>}}
        \cup {ListPath(l) : l \in SegmentLists}
        \cup {[kind |-> "other", segs |-> << >>, chars |-> << >>]}

InitPath ==
    /\ catalog = {}
    /\ data = [t \in Tables |-> << >>]
    /\ InitInvocations
    /\ fn = "none"
    /\ input \in PathInputs
    /\ output = Gives(<< >>)
    /\ work = NoWork

\* f applied to the input drawn, giving y
ApplyOnce(f, y) ==
    /\ fn = "none"
    /\ fn' = f
    /\ output' = y
    /\ UNCHANGED <<catalog, data, pc, op, args, loc, sent, looked, outcome, started,
                   victim, collided, input, work>>

ApplyPathToList == ApplyOnce("path_to_list", path_to_list(input))
ApplyPathToDotted == ApplyOnce("path_to_dotted", path_to_dotted(input))
\* path_to_list(path_to_dotted(l)) of a list, path_to_dotted(path_to_list(s)) of a string
ApplyRoundTrip ==
    /\ input.kind \in {"list", "str"}
    /\ ApplyOnce("round_trip",
                 IF input.kind = "list"
                 THEN path_to_list(StrPath(path_to_dotted(input).text))
                 ELSE path_to_dotted(ListPath(path_to_list(input).text)))
\* the names update_table_from_dataframe derives from the target path
ApplyStagingNames ==
    /\ input.kind = "str"
    /\ ApplyOnce("staging", Gives(<<StagingNames(input.chars).temp_table_path,
                                    StagingNames(input.chars).full_table_path>>))

NextPath == ApplyPathToList \/ ApplyPathToDotted \/ ApplyRoundTrip \/ ApplyStagingNames

SpecPath == InitPath /\ [][NextPath]_vars

\* JobResult.preview_table applied once to a result and a number drawn at the start
PreviewInputs ==
    {[kind |-> "preview", self |-> JobResult(n), number_of_rows |-> k] :
        n \in 0..MaxResultRows, k \in (-2)..(MaxResultRows + 1)}

InitPreview ==
    /\ catalog = {}
    /\ data = [t \in Tables |-> << >>]
    /\ InitInvocations
    /\ fn = "none"
    /\ input \in PreviewInputs
    /\ output = Gives(<< >>)
    /\ work = NoWork

ApplyPreviewTable ==
    ApplyOnce("preview_table", Gives(preview_table(input.self, input.number_of_rows)))

NextPreview == ApplyPreviewTable

SpecPreview == InitPreview /\ [][NextPreview]_vars

\* one call of _flight_query_stream, against any server
FlightInputs ==
    {[kind |-> "flight", heap |-> <<c>>, ref |-> 1] : c \in FlightConfigs}
        \cup {[kind |-> "flight", heap |-> <<c, d>>, ref |-> 2] : c, d \in FlightConfigs}

InitFlight ==
    /\ catalog = {}
    /\ data = [t \in Tables |-> << >>]
    /\ InitInvocations
    /\ fn = "_flight_query_stream"
    /\ input \in FlightInputs
    /\ output = Gives(<< >>)
    /\ work = [kind |-> "flight", heap |-> input.heap, ref |-> input.ref, attempts |-> 0,
               status |-> "running"]

\* client.get_flight_info(...) in the innermost frame, and what follows from
\* its answer: the stream is returned through every frame, the error is raised
\* through every frame, or the function calls itself with an altered copy.
\* get_flight_info answers with flight info, a FlightUnavailableError whose
\* text holds the given markers, or another error.
GetFlightInfo ==
    /\ work.kind = "flight"
    /\ work.status = "running"
    /\ work.attempts < MaxAttempts
    /\ \E r \in [type : {"ok", "other"}, markers : {{}}]
                  \cup [type : {"FlightUnavailableError"},
                         markers : SUBSET {"SETTINGS", "empty address list"}] :
         LET todo == IF r.type = "ok" THEN "return"
                     ELSE IF r.type = "other" THEN "raise"
                     ELSE OnUnavailable(work.heap, work.ref, r)
             retry == CopyAndSet(work.heap, work.ref, todo = "retry tls")
         IN  work' = IF todo = "return"
                     THEN [work EXCEPT !.attempts = @ + 1, !.status = "returned"]
                     ELSE IF todo = "raise"
                     THEN [work EXCEPT !.attempts = @ + 1, !.status = "raised"]
                     ELSE [work EXCEPT !.attempts = @ + 1, !.heap = retry.heap,
                                       !.ref = retry.ref]
    /\ UNCHANGED <<catalog, data, pc, op, args, loc, sent, looked, outcome, started,
                   victim, collided, fn, input, output>>

NextFlight == GetFlightInfo

SpecFlight == InitFlight /\ [][NextFlight]_vars

\* one call of write_dbt_models on a list of datasets drawn at the start
DatasetLists ==
    UNION {[1..k -> [name : {<<"a">>, <<"a", "_", "1">>, <<"a", "/", "b">>, <<"a", "_", "b">>},
                     folder : {"f", "g"}]] : k \in 0..MaxDatasets}

InitDbt ==
    /\ catalog = {}
    /\ data = [t \in Tables |-> << >>]
    /\ InitInvocations
    /\ fn = "write_dbt_models"
    /\ input \in {[kind |-> "datasets", datasets |-> l] : l \in DatasetLists}
    /\ output = Gives(<< >>)
    /\ work = [kind |-> "dbt", k |-> 0, used_filenames |-> {}, names |-> << >>,
               files |-> << >>, status |-> "loop"]

\* one turn of the loop over the datasets: the name made unique, the model
\* file written
WriteModel ==
    /\ work.kind = "dbt"
    /\ work.status = "loop"
    /\ work.k < Len(input.datasets)
    /\ LET ds == input.datasets[work.k + 1]
           final_name == UniqueName(ds.name, ds.name, 1, work.used_filenames)
           filename == [folder |-> ds.folder, file |-> SafeName(final_name) \o <<".sql">>]
       IN  work' = [work EXCEPT !.k = @ + 1,
                                !.used_filenames = @ \cup {final_name \o <<".sql">>},
                                !.names = Append(@, final_name),
                                !.files = Append(@, filename)]
    /\ UNCHANGED <<catalog, data, pc, op, args, loc, sent, looked, outcome, started,
                   victim, collided, fn, input, output>>

\* after the loop: the project and schema files, which are no model files
FinishModels ==
    /\ work.kind = "dbt"
    /\ work.status = "loop"
    /\ work.k = Len(input.datasets)
    /\ work' = [work EXCEPT !.status = "done"]
    /\ UNCHANGED <<catalog, data, pc, op, args, loc, sent, looked, outcome, started,
                   victim, collided, fn, input, output>>

NextDbt == WriteModel \/ FinishModels

SpecDbt == InitDbt /\ [][NextDbt]_vars

\* a JobResult built from an arrow table drawn at the start, then measured
\* with len() and iterated
InitResult ==
    /\ catalog = {}
    /\ data = [t \in Tables |-> << >>]
    /\ InitInvocations
    /\ fn = "from_arrow_table"
    /\ input \in ArrowTables
    /\ output = Gives(<< >>)
    /\ work = [kind |-> "result", self |-> NoWork, len |-> -1, it |-> -1,
               yielded |-> << >>, stopped |-> FALSE]

ResultStep(w) ==
    /\ work.kind = "result"
    /\ work' = w
    /\ UNCHANGED <<catalog, data, pc, op, args, loc, sent, looked, outcome, started,
                   victim, collided, fn, input, output>>

FromArrowTable ==
    /\ work.self = NoWork
    /\ ResultStep([work EXCEPT !.self = from_arrow_table(input)])
\* len(result)
CallLen ==
    /\ work.self # NoWork
    /\ work.len = -1
    /\ ResultStep([work EXCEPT !.len = JobResult_len(work.self)])
\* iter(result)
CallIter ==
    /\ work.self # NoWork
    /\ work.it = -1
    /\ ResultStep([work EXCEPT !.it = 0])
\* next() on the iterator: the next row
NextRow ==
    /\ work.it >= 0
    /\ work.it < Len(JobResult_iter(work.self))
    /\ ResultStep([work EXCEPT !.it = @ + 1,
                               !.yielded = Append(@, JobResult_iter(work.self)[work.it + 1])])
\* next() on the iterator: StopIteration
StopIteration ==
    /\ work.it >= 0
    /\ work.it = Len(JobResult_iter(work.self))
    /\ ~ work.stopped
    /\ ResultStep([work EXCEPT !.stopped = TRUE])

NextResult == FromArrowTable \/ CallLen \/ CallIter \/ NextRow \/ StopIteration

SpecResult == InitResult /\ [][NextResult]_vars

\* to_dict applied once to a dataclass instance drawn at the start
InitToDict ==
    /\ catalog = {}
    /\ data = [t \in Tables |-> << >>]
    /\ InitInvocations
    /\ fn = "none"
    /\ input \in Dataclasses
    /\ output = Gives(<< >>)
    /\ work = NoWork

ApplyToDict == ApplyOnce("to_dict", to_dict(input))

NextToDict == ApplyToDict

SpecToDict == InitToDict /\ [][NextToDict]_vars

\* ------------------------------------------------------------------ claims
Done(c) == pc[c] = "done"
IsError(r) == r.type = "DremioError"
Has(c, kind) == \E i \in 1..Len(sent[c]) : sent[c][i].kind = kind
Last(q) == q[Len(q)]

\* the statements create_table_from_dataframe sent within c's invocation
CreatePart(c) == SelectSeq(sent[c], LAMBDA st : st.kind \in {"CREATE", "INSERT"})
\* create_table_from_dataframe has returned to its caller within c's invocation
CreateReturned(c) ==
    \/ op[c] = "create_table_from_dataframe" /\ outcome[c] = Returned
    \/ op[c] = "update_table_from_dataframe" /\ (pc[c] \in {"merge", "drop"} \/ Has(c, "MERGE"))

RECURSIVE Tuples(_)
Tuples(q) == IF q = << >> THEN << >> ELSE Head(q).tuples \o Tuples(Tail(q))

\* C1: a CREATE TABLE of create_table_from_dataframe rejected with an error
\* other than the conflict status is raised unchanged and no INSERT follows.
C1_CreateErrorRaised ==
    \A c \in Clients :
        ( /\ op[c] = "create_table_from_dataframe"
          /\ sent[c] # << >>
          /\ IsError(sent[c][1].resp)
          /\ sent[c][1].resp.status_code # ConflictStatus )
        => /\ outcome[c] = Raised(sent[c][1].resp)
           /\ Len(sent[c]) = 1

\* C2: for n rows and batch_size b >= 1, create_table_from_dataframe sends one
\* CREATE TABLE and then ceil(n/b) INSERTs, each of b tuples but the last, which
\* has 1..b, and the tuples in send order are the rows in their order.
C2_BatchedInserts ==
    \A c \in Clients :
        (CreateReturned(c) /\ args[c].batch_size >= 1)
        => LET q == CreatePart(c)
               n == Len(args[c].rows)
               b == args[c].batch_size
               k == Len(q) - 1
           IN  /\ q # << >>
               /\ q[1].kind = "CREATE"
               /\ \A j \in 2..Len(q) : q[j].kind = "INSERT" /\ q[j].table = q[1].table
               /\ k = (n + b - 1) \div b
               /\ \A j \in 2..(Len(q) - 1) : Len(q[j].tuples) = b
               /\ k > 0 => Len(Last(q).tuples) \in 1..b
               /\ Tuples(q) = [i \in 1..n |-> RenderRow(args[c].rows[i])]

\* a create that returned after a full batch and a shorter last batch
C2_Witness ==
    \E c \in Clients :
        /\ op[c] = "create_table_from_dataframe"
        /\ outcome[c] = Returned
        /\ Len(args[c].rows) = 3
        /\ args[c].batch_size = 2
        /\ Len(sent[c]) = 3
        /\ Len(sent[c][2].tuples) = 2
        /\ Len(sent[c][3].tuples) = 1

\* C3: a CREATE TABLE (from a tabular source or a query) answered with the
\* conflict status re-raises the engine's error with a message that holds the
\* full target path and points to the update operation, and sends no INSERT.
UpdateHints == {"update_dataset()", "update_table()"}
TabularUpdate(c) ==
    /\ op[c] = "update_table_from_dataframe"
    /\ outcome[c].exc.type # "TypeError"

\* C4: update with a tabular source on a target that does not exist raises a
\* table-does-not-exist error and sends no statement at all.
C4_UpdateChecksTarget ==
    \A c \in Clients :
        (TabularUpdate(c) /\ ~ args[c].targetExisted)
        => /\ sent[c] = << >>
           /\ Done(c) => outcome[c].exc.type = "RuntimeError"

\* C5: update with a query source looks the target up first; a lookup error
\* carrying the missing marker, or an empty entry, raises a table-does-not-exist
\* error; any other lookup error is raised unchanged; no MERGE is sent then.
C5_LookupFailureStops ==
    \A c \in Clients :
        (op[c] = "update_table_from_sql" /\ pc[c] # "lookup" /\ outcome[c].exc.type # "TypeError")
        => /\ Len(looked[c]) = 1
           /\ LET r == looked[c][1]
                  missing == (IsError(r) /\ Contains(r.errorMessage, MissingMarker)) \/ r = Empty
              IN  /\ missing => /\ outcome[c].kind = "raised"
                                /\ outcome[c].exc.type = "RuntimeError"
                                /\ Contains(outcome[c].exc.errorMessage, "T")
                                /\ sent[c] = << >>
                  /\ (IsError(r) /\ ~ missing) => /\ outcome[c] = Raised(r)
                                                  /\ sent[c] = << >>
                  /\ sent[c] # << >> => r = Found

\* an update from a query whose lookup returned an empty entry
C5_Witness ==
    \E c \in Clients :
        /\ op[c] = "update_table_from_sql"
        /\ looked[c] = <<Empty>>
        /\ outcome[c].kind = "raised"
        /\ outcome[c].exc.type = "RuntimeError"

\* C6: in update with a tabular source, a rejected staging CREATE is raised and
\* neither INSERT, MERGE nor DROP is sent.
C6_StagingCreateFailureStops ==
    \A c \in Clients :
        (TabularUpdate(c) /\ sent[c] # << >> /\ IsError(sent[c][1].resp))
        => /\ Len(sent[c]) = 1
           /\ outcome[c].kind = "raised"

\* C7: a tabular update that returns has sent the staging CREATE TABLE, then
\* the staging INSERTs, then one MERGE INTO the target from the staging table,
\* then, unless keep_temp_table, one DROP TABLE of the staging table, and
\* nothing else.
C7_UpdateOrder ==
    \A c \in Clients :
        (op[c] = "update_table_from_dataframe" /\ outcome[c] = Returned)
        => LET q == sent[c]
               m == IF args[c].keep_temp_table THEN Len(q) ELSE Len(q) - 1
           IN  /\ m >= 2
               /\ q[1].kind = "CREATE" /\ q[1].table = "S"
               /\ \A j \in 2..(m - 1) : q[j].kind = "INSERT" /\ q[j].table = "S"
               /\ q[m].kind = "MERGE" /\ q[m].table = "T" /\ q[m].src = "S"
               /\ ~ args[c].keep_temp_table => Last(q).kind = "DROP" /\ Last(q).table = "S"

\* a returned update that inserted two batches, merged and dropped
C7_Witness ==
    \E c \in Clients :
        /\ op[c] = "update_table_from_dataframe"
        /\ outcome[c] = Returned
        /\ ~ args[c].keep_temp_table
        /\ Len(sent[c]) = 5
        /\ \A j \in 1..5 : sent[c][j].resp = Ok

\* C8 as claimed: an update with keep_temp_table unset that created its staging
\* table has sent a DROP TABLE for it by the time it returns or raises.
C8_DropOnEveryExit ==
    \A c \in Clients :
        ( /\ op[c] = "update_table_from_dataframe"
          /\ ~ args[c].keep_temp_table
          /\ Done(c)
          /\ sent[c] # << >>
          /\ sent[c][1].resp = Ok )
        => Has(c, "DROP")

\* C8 (amended): an update with keep_temp_table unset that created its staging
\* table sends the DROP TABLE exactly when every staging INSERT and the MERGE
\* were accepted; when one of them is rejected the update raises that error
\* after it, sends no DROP, and the staging table stays in the catalog.
C8_DropOnlyAfterMerge ==
    \A c \in Clients :
        ( /\ op[c] = "update_table_from_dataframe"
          /\ ~ args[c].keep_temp_table
          /\ Done(c)
          /\ sent[c] # << >>
          /\ sent[c][1].resp = Ok )
        => LET q == sent[c]
               accepted == \E j \in 1..Len(q) : q[j].kind = "MERGE" /\ q[j].resp = Ok
           IN  /\ Has(c, "DROP") <=> accepted
               /\ ~ accepted => /\ Last(q).kind \in {"INSERT", "MERGE"}
                                /\ outcome[c] = Raised(Last(q).resp)
                                /\ "S" \in catalog

\* an update that created and filled its staging table and whose MERGE failed
C8_Witness ==
    \E c \in Clients :
        /\ op[c] = "update_table_from_dataframe"
        /\ ~ args[c].keep_temp_table
        /\ Done(c)
        /\ Len(sent[c]) = 3
        /\ sent[c][1].resp = Ok
        /\ sent[c][2].resp = Ok
        /\ sent[c][3].kind = "MERGE"
        /\ IsError(sent[c][3].resp)
        /\ "S" \in catalog

\* C10: an update sends a MERGE from, or a DROP of, the staging table only
\* when its own staging CREATE was accepted.
C10_OwnsStaging ==
    \A c \in Clients :
        (op[c] = "update_table_from_dataframe" /\ (Has(c, "MERGE") \/ Has(c, "DROP")))
        => sent[c][1].kind = "CREATE" /\ sent[c][1].resp = Ok

\* C9: two concurrent tabular updates of the same target share the staging
\* name and collide. What a collision is: an update whose staging CREATE meets
\* the conflict status stops there with the conflict raised; an update that
\* created its staging table loses it before its own DROP only through the
\* other client's DROP; the update whose INSERT or MERGE then finds no staging
\* table raises that rejection and sends no DROP. C9_Witness shows both
\* collisions reached.
C9_Collisions ==
    \A c \in Clients :
        op[c] = "update_table_from_dataframe"
        => /\ (sent[c] # << >> /\ sent[c][1].resp = ErrConflict)
               => /\ Done(c)
                  /\ outcome[c].kind = "raised"
                  /\ outcome[c].exc.status_code = ConflictStatus
                  /\ Len(sent[c]) = 1
           /\ (HoldsStaging(c) /\ pc[c] \in {"insert", "merge"} /\ "S" \notin catalog)
               => victim[c]
           /\ ( /\ victim[c] /\ Done(c)
                /\ Last(sent[c]).kind \in {"INSERT", "MERGE"}
                /\ Last(sent[c]).resp = ErrNotFound )
               => /\ outcome[c] = Raised(ErrNotFound)
                  /\ ~ Has(c, "DROP")

\* one behaviour in which a staging CREATE met the conflict raised by the other
\* client's running update, and in which a DROP of one client removed the
\* staging table before the other client's INSERT or MERGE was executed
C9_Witness == collided = {"create_conflict", "premature_drop"}

\* the caller of c's invocation made a usage error: no source, both sources,
\* or a source of a kind the operation does not take
UsageError(c) ==
    \/ op[c] \in {"create_table", "create_table_from_dataframe", "create_table_from_sql"}
         /\ args[c].kind \notin {"df", "sql"}
    \/ op[c] = "script.create_table" /\ args[c].kind \in {"none", "both"}
    \/ op[c] = "update_table_from_sql" /\ args[c].kind # "sql"
    \/ op[c] = "update_table_from_dataframe" /\ args[c].kind # "df"

Accepted(c) ==
    Tuples(SelectSeq(sent[c], LAMBDA st : st.kind = "INSERT" /\ st.resp = Ok))

\* C12: when an INSERT of a tabular create is rejected, the error is raised,
\* the rejected INSERT is the last statement sent, and the table holds exactly
\* the rows of the INSERTs accepted before it.
C12_PartialInsertKept ==
    \A c \in Clients :
        ( /\ op[c] = "create_table_from_dataframe"
          /\ sent[c] # << >>
          /\ \E i \in 1..Len(sent[c]) : sent[c][i].kind = "INSERT" /\ IsError(sent[c][i].resp) )
        => /\ Last(sent[c]).kind = "INSERT"
           /\ \A i \in 1..(Len(sent[c]) - 1) : sent[c][i].kind = "CREATE" \/ sent[c][i].resp = Ok
           /\ outcome[c] = Raised(Last(sent[c]).resp)
           /\ data[loc[c].full_table_path] = Accepted(c)

\* C13: within one invocation no statement is sent twice: the statements sent
\* differ pairwise in their text, no row is in two INSERTs, and there is at
\* most one CREATE, one MERGE and one DROP.
C13_NoResend ==
    \A c \in Clients :
        /\ \A i, j \in 1..Len(sent[c]) : i < j => sent[c][i].text # sent[c][j].text
        /\ LET q == Tuples(sent[c]) IN \A i, j \in 1..Len(q) : i < j => q[i] # q[j]
        /\ \A k \in {"CREATE", "MERGE", "DROP"} :
             Len(SelectSeq(sent[c], LAMBDA st : st.kind = k)) <= 1
        /\ \A i \in 1..(Len(sent[c]) - 1) :
             IsError(sent[c][i].resp) => sent[c][i].kind = "CREATE"
C13_Witness ==
    /\ op["c1"] = "update_table_from_dataframe"
    /\ Len(sent["c1"]) >= 5
    /\ Last(sent["c1"]).kind = "DROP"
    /\ IsError(Last(sent["c1"]).resp)
    /\ IsError(sent["c1"][1].resp)

\* C14: when the DROP of the staging table is rejected, update_table_from_dataframe
\* raises that error, and the rows merged into the target stay there.
C14_DropErrorRaised ==
    \A c \in Clients :
        ( /\ op[c] = "update_table_from_dataframe"
          /\ sent[c] # << >>
          /\ Last(sent[c]).kind = "DROP"
          /\ IsError(Last(sent[c]).resp) )
        => /\ ~ args[c].keep_temp_table
           /\ Done(c)
           /\ outcome[c] = Raised(Last(sent[c]).resp)
           /\ sent[c][Len(sent[c]) - 1].kind = "MERGE"
           /\ sent[c][Len(sent[c]) - 1].resp = Ok
           /\ \A i \in 1..Len(data["S"]) : \E j \in 1..Len(data["T"]) : data["T"][j] = data["S"][i]
C14_Witness ==
    /\ op["c1"] = "update_table_from_dataframe"
    /\ sent["c1"] # << >>
    /\ Last(sent["c1"]).kind = "DROP"
    /\ Last(sent["c1"]).resp = ErrOther
    /\ outcome["c1"] = Raised(ErrOther)
    /\ Len(data["S"]) = 2
    /\ args["c1"].targetExisted

\* C15: create_table given a query string sends one statement, CREATE TABLE
\* <target> AS <query>, and no INSERT, whatever the batch size.
C15_OneCtas ==
    \A c \in Clients :
        ( /\ op[c] \in {"create_table", "create_table_from_dataframe", "create_table_from_sql"}
          /\ args[c].kind = "sql" )
        => /\ pc[c] \in {"ctas", "done"}
           /\ pc[c] = "ctas" => sent[c] = << >>
           /\ Done(c) => /\ Len(sent[c]) = 1
                          /\ sent[c][1].text = <<"CREATE TABLE", "T", "AS", args[c].sql>>
           /\ ~ Has(c, "INSERT")
           /\ looked[c] = << >>
C15_Witness ==
    /\ op["c1"] = "create_table_from_sql"
    /\ args["c1"].batch_size = 1
    /\ args["c1"].sql = "q2"
    /\ Len(sent["c1"]) = 1
    /\ sent["c1"][1].resp = Ok
    /\ outcome["c1"] = Returned

\* C16: update_table_from_sql whose lookup finds the target makes that one
\* lookup and then sends one statement, MERGE INTO <target> AS t USING (<query>)
\* AS s ON (<on>) ..., with the caller's query and ON clause as given.
C16_OneLookupOneMerge ==
    \A c \in Clients :
        ( /\ op[c] = "update_table_from_sql"
          /\ looked[c] # << >>
          /\ looked[c][1] = Found )
        => /\ Len(looked[c]) = 1
           /\ pc[c] \in {"merge", "done"}
           /\ pc[c] = "merge" => sent[c] = << >>
           /\ Done(c) =>
                /\ Len(sent[c]) = 1
                /\ sent[c][1].kind = "MERGE"
                /\ sent[c][1].text =
                     <<"MERGE INTO", "T", "AS t", "USING", "(", args[c].sql, ")", "AS s",
                       "ON (", args[c].on, ")", "WHEN MATCHED THEN UPDATE SET *",
                       "WHEN NOT MATCHED THEN INSERT *">>
                /\ outcome[c] = IF sent[c][1].resp = Ok THEN Returned
                                ELSE Raised(sent[c][1].resp)
C16_Witness ==
    /\ op["c1"] = "update_table_from_sql"
    /\ looked["c1"] = <<Found>>
    /\ args["c1"].sql = "q2"
    /\ args["c1"].on = "on1"
    /\ Len(sent["c1"]) = 1
    /\ sent["c1"][1].resp = Ok
    /\ outcome["c1"] = Returned

\* the number of quotes in a string
RECURSIVE Quotes(_)
Quotes(q) == IF q = << >> THEN 0 ELSE (IF Head(q) = "'" THEN 1 ELSE 0) + Quotes(Tail(q))
\* a literal's body read back: each pair of quotes is one quote
RECURSIVE Undouble(_)
Undouble(q) ==
    IF Len(q) >= 2 /\ q[1] = "'" /\ q[2] = "'" THEN <<"'">> \o Undouble(Tail(Tail(q)))
    ELSE IF q = << >> THEN << >>
    ELSE <<Head(q)>> \o Undouble(Tail(q))
\* a string literal read back: the outer quotes stripped, the body undoubled
ReadBack(lit) == Undouble(SubSeq(lit, 2, Len(lit) - 1))

\* C17: escape_sql_value of a string is the string between single quotes with
\* every embedded quote doubled, and reading the literal back gives the string.
C17_StringRoundTrip ==
    (fn = "escape_sql_value" /\ input.kind = "string")
    => LET lit == output.text
           n == Len(input.chars)
       IN  /\ output.raised = "none"
           /\ Len(lit) = n + 2 + Quotes(input.chars)
           /\ lit[1] = "'" /\ lit[Len(lit)] = "'"
           /\ Quotes(lit) = 2 + 2 * Quotes(input.chars)
           /\ ReadBack(lit) = input.chars
C17_Witness ==
    /\ fn = "escape_sql_value"
    /\ input.kind = "string"
    /\ input.chars = <<"'", "'">>
    /\ output.text = <<"'", "'", "'", "'", "'", "'">>

\* the literal the dispatch on the kind of a value promises
Promised(val, lit) ==
    CASE val.kind \in {"null", "nan"} -> lit = <<"NULL">>
      [] val.kind = "string" -> Len(lit) >= 2 /\ lit[1] = "'" /\ lit[Len(lit)] = "'"
      [] val.kind = "datetime" -> lit = <<"TIMESTAMP '", val.date, " ", val.time, "'">>
      [] val.kind = "date" -> lit = <<"DATE '", val.date, "'">>
      [] val.kind = "bool" -> lit = IF val.truth THEN <<"TRUE">> ELSE <<"FALSE">>
      [] OTHER -> lit = val.chars

\* C18: escape_sql_value, of the library and of the script, never raises and
\* gives NULL for None and NaN, a quoted literal for a string, a TIMESTAMP
\* literal for a date-time, a DATE literal for a date, TRUE or FALSE for a
\* boolean, and str(val) for any other value.
C18_Dispatch ==
    (fn \in {"escape_sql_value", "script.escape_sql_value"})
    => (output.raised = "none" /\ Promised(input, output.text))

Fits(val, keyword) ==
    \/ keyword = "BIGINT" /\ val.kind = "number"
    \/ keyword = "VARCHAR" /\ val.kind = "string"

\* C20: the CREATE TABLE of a tabular value has one definition per column, in
\* column order, the name between double quotes and then the mapped type; the
\* n-th tuple sent holds the literals of the n-th row's values in column order,
\* each value of a kind its column was declared with.
C20_ColumnOrder ==
    \A c \in Clients :
        \A i \in 1..Len(sent[c]) :
            LET st == sent[c][i]
                cols == args[c].columns
            IN  /\ (st.kind = "CREATE" /\ st.src = "schema")
                   => /\ Len(st.text) = 3 + 6 * Len(cols)
                      /\ \A j \in 1..Len(cols) :
                           SubSeq(st.text, 6 * j - 2, 6 * j + 2)
                               = <<"\"", cols[j].name, "\"", " ",
                                   IF cols[j].dtype.family = "int" THEN "BIGINT" ELSE "VARCHAR">>
                /\ st.kind = "INSERT"
                   => LET before == Len(Tuples(SubSeq(sent[c], 1, i - 1)))
                      IN  \A n \in 1..Len(st.tuples) :
                            LET row == args[c].rows[before + n]
                                t == st.tuples[n]
                            IN  /\ Len(row) = Len(cols)
                                /\ t[1] = "(" /\ t[Len(t)] = ")"
                                /\ <<t[2]>> = row[1].chars
                                /\ t[3] = ", "
                                /\ ReadBack(SubSeq(t, 4, Len(t) - 1)) = row[2].chars
                                /\ \A j \in 1..Len(cols) :
                                     Fits(row[j], map_dtype_to_sql(cols[j].dtype))
C20_Witness ==
    /\ op["c1"] = "create_table_from_dataframe"
    /\ Len(sent["c1"]) = 3
    /\ sent["c1"][1].text =
         <<"CREATE TABLE", "T", "(", "\"", "id", "\"", " ", "BIGINT", ",\n  ",
           "\"", "name", "\"", " ", "VARCHAR", ")">>
    /\ sent["c1"][3].tuples = << <<"(", "3", ", ", "'", "a", "'", ")">> >>
    /\ sent["c1"][2].tuples =
         << <<"(", "1", ", ", "'", "a", "'", ")">>,
            <<"(", "2", ", ", "'", "a", "'", "'", "'", ")">> >>

\* ------------------------------------------------------------ claims: paths
QuoteFree(seg) == seg # << >> /\ \A j \in 1..Len(seg) : seg[j] \notin {"\"", "'"}
\* a string of the form "a"."b"."c"
IsDottedQuoted(str) ==
    \E l \in SegmentLists :
        l # << >> /\ (\A j \in 1..Len(l) : QuoteFree(l[j])) /\ str = DottedQuoted(l)
\* a string of the form a.b.c, the segments plain and not empty
IsPlainDotted(str) ==
    /\ \A j \in 1..Len(str) : str[j] \in {"a", "b", "."}
    /\ \A j \in 1..Len(SplitDots(str, 1)) : SplitDots(str, 1)[j] # << >>

\* C21: path_to_list(path_to_dotted(l)) = l for every list l of segments that
\* are not empty and hold no quote, and path_to_dotted(path_to_list(s)) = s for
\* every string s of the form "a"."b"."c".
C21_RoundTrip ==
    (fn = "round_trip")
    => /\ (input.kind = "list" /\ \A j \in 1..Len(input.segs) : QuoteFree(input.segs[j]))
          => output = Gives(input.segs)
       /\ (input.kind = "str" /\ IsDottedQuoted(input.chars))
          => output = Gives(input.chars)

\* C22: every segment path_to_list returns is not empty and holds no double
\* quote, for a list, a bracketed string and a dotted string.
C22_CleanSegments ==
    (fn = "path_to_list" /\ output.raised = "none")
    => \A j \in 1..Len(output.text) :
         /\ output.text[j] # << >>
         /\ \A k \in 1..Len(output.text[j]) : output.text[j][k] # "\""

\* C23: for a string of plain segments joined by dots, path_to_list gives the
\* segments in their order and path_to_dotted gives them each between double
\* quotes and joined by dots.
C23_PlainDotted ==
    (input.kind = "str" /\ IsPlainDotted(input.chars))
    => /\ fn = "path_to_list" => output = Gives(SplitDots(input.chars, 1))
       /\ fn = "path_to_dotted" => output = Gives(DottedQuoted(SplitDots(input.chars, 1)))
C23_Witness ==
    /\ fn = "path_to_dotted"
    /\ input = StrPath(<<"a", ".", "b">>)
    /\ output = Gives(<<"\"", "a", "\"", ".", "\"", "b", "\"">>)

\* the segments an SQL reader sees in an identifier: the pieces between the
\* dots that stand outside double quotes, without the quotes
RECURSIVE SqlSegments(_, _, _, _)
SqlSegments(str, i, cur, quoted) ==
    IF i > Len(str) THEN <<cur>>
    ELSE IF str[i] = "\"" THEN SqlSegments(str, i + 1, cur, ~ quoted)
    ELSE IF str[i] = "." /\ ~ quoted THEN <<cur>> \o SqlSegments(str, i + 1, << >>, FALSE)
    ELSE SqlSegments(str, i + 1, Append(cur, str[i]), quoted)
\* a target path: plain segments joined by dots, or quoted segments joined by dots
IsTarget(str) == IsPlainDotted(str) \/ IsDottedQuoted(str)

\* C24: the staging path has the parent segments of the target path and, as
\* its last segment, the target's table name followed by _temp_update.
C24_StagingPath ==
    (fn = "staging" /\ IsTarget(input.chars))
    => LET target == SqlSegments(input.chars, 1, << >>, FALSE)
       IN  SqlSegments(output.text[1], 1, << >>, FALSE)
             = SubSeq(target, 1, Len(target) - 1)
                 \o <<Last(target) \o <<"_temp_update">>>>

\* C28: the staging table has the same identifier in the CREATE TABLE and the
\* INSERTs (full_table_path) as in the MERGE and the DROP (temp_table_path).
C28_OneStagingName ==
    (fn = "staging" /\ IsTarget(input.chars)) => output.text[1] = output.text[2]

\* ------------------------------------------------------ claims: job results
\* C25: preview_table(number_of_rows) shows the first min(number_of_rows, row
\* count) rows, all rows for number_of_rows = -1, and after them the "..." row
\* exactly when it left rows out.
C25_Preview ==
    (fn = "preview_table" /\ input.number_of_rows >= -1)
    => LET n == input.self.rowCount
           want == IF input.number_of_rows = -1 THEN n ELSE Min(input.number_of_rows, n)
       IN  output.text = [j \in 1..want |-> Line(j)]
                           \o (IF want < n THEN <<MarkerLine>> ELSE << >>)

\* ----------------------------------------------------------- claims: flight
\* C26: one call of _flight_query_stream makes at most three connection
\* attempts, one with the configuration given, one with TLS enabled and one
\* with certificate verification disabled, whatever the server answers.
C26_BoundedAttempts == work.kind = "flight" => work.attempts <= 3

\* C27: self.flight_config and the flight_config the caller passed keep their
\* tls and disable_certificate_verification during and after the call; only
\* copies are altered.
C27_ConfigUnchanged ==
    work.kind = "flight"
    => \A k \in 1..Len(input.heap) :
         /\ work.heap[k].tls = input.heap[k].tls
         /\ work.heap[k].disable_certificate_verification
              = input.heap[k].disable_certificate_verification
C27_Witness ==
    /\ work.kind = "flight"
    /\ work.status = "returned"
    /\ Len(input.heap) = 2
    /\ Len(work.heap) = 4
    /\ ~ input.heap[2].tls
    /\ work.heap[4].tls /\ work.heap[4].disable_certificate_verification

\* ----------------------------------------------------- claims: batch sizes
\* the tuples of the rows of c's tabular source, as the operation renders them
Rendered(c) ==
    [n \in 1..Len(args[c].rows) |->
        IF op[c] = "script.create_table" THEN ScriptRenderRow(args[c].rows[n])
        ELSE RenderRow(args[c].rows[n])]

\* C29: for every batch size, zero and negative ones too, and every number of
\* rows, no INSERT is sent without tuples, no INSERT is sent for a source
\* without rows, no row is sent twice, and once create_table_from_dataframe has
\* returned every row has been sent.
C29_AnyBatchSize ==
    \A c \in Clients :
        LET q == Tuples(CreatePart(c))
        IN  /\ \A i \in 1..Len(sent[c]) : sent[c][i].kind = "INSERT" => sent[c][i].tuples # << >>
            /\ args[c].rows = << >> => ~ Has(c, "INSERT")
            /\ Len(q) <= Len(args[c].rows)
            /\ \A n \in 1..Len(q) :
                 Len(SelectSeq(q, LAMBDA t : t = Rendered(c)[n])) = 1
            /\ CreateReturned(c) => Len(q) = Len(args[c].rows)
C29_Witness ==
    /\ op["c1"] = "create_table_from_dataframe"
    /\ args["c1"].batch_size = -1
    /\ Len(args["c1"].rows) = 3
    /\ outcome["c1"] = Returned
    /\ Len(sent["c1"]) = 4

\* -------------------------------------------------------------- claims: dbt
\* C30: write_dbt_models writes no two datasets to the same model file, and
\* gives no two datasets the same final name.
C30_DistinctModelFiles ==
    work.kind = "dbt"
    => /\ \A i, j \in 1..Len(work.files) : i < j => work.files[i] # work.files[j]
       /\ \A i, j \in 1..Len(work.names) : i < j => work.names[i] # work.names[j]

\* ---------------------------------------------------------- claims: results
\* C31: a JobResult built by from_arrow_table has rowCount = the number of rows
\* of the table, len(result) gives that number, and iteration yields the rows
\* of the table in table order, exactly len(result) of them.
C31_LenAndIteration ==
    (work.kind = "result" /\ work.self # NoWork)
    => /\ work.self.rowCount = input.num_rows
       /\ work.self.rowCount = Len(work.self.rows)
       /\ work.len # -1 => work.len = input.num_rows
       /\ \A i \in 1..Len(work.yielded) : \A c \in 1..Len(input.names) :
            /\ work.yielded[i][c].name = input.names[c]
            /\ work.yielded[i][c].value = input.columns[c][i]
       /\ work.stopped => Len(work.yielded) = JobResult_len(work.self)
C31_Witness ==
    /\ work.kind = "result"
    /\ work.stopped
    /\ work.len = 3
    /\ Len(input.names) = 2
    /\ work.yielded[1] # work.yielded[2]
    /\ work.yielded[2] # work.yielded[3]

\* ---------------------------------------------------------- claims: to_dict
\* a name that starts with a single underscore
SingleUnderscore(name) == name[1] = "_" /\ (Len(name) < 2 \/ name[2] # "_")
Converted(value) == IF value.type = "UUID" THEN StrOf(value) ELSE value
\* the dict the claim describes: every field but the single-underscore ones,
\* UUID values as strings
ExpectedDict(fields) ==
    LET kept == SelectSeq(fields, LAMBDA f : ~ SingleUnderscore(f.name))
    IN  [j \in 1..Len(kept) |-> [key |-> kept[j].name, value |-> Converted(kept[j].value)]]

\* C32: to_dict does not fail for any field name, and returns every field whose
\* name does not start with a single underscore, UUID values converted to
\* their string form, and no other field.
C32_ToDict ==
    fn = "to_dict"
    => /\ output.raised = "none"
       /\ output.text = ExpectedDict(input.fields)
====
